---- MODULE Spec2Model ----
(***************************************************************************)
(* Streaming chat client for an Ollama server.                             *)
(*                                                                         *)
(*   services/ollamaService.ts  streamChat: request, body reader loop,     *)
(*                              line splitting, JSON parsing, callbacks    *)
(*   App                        handleSendMessage, handleClearChat and the *)
(*                              onChunk / onDone / onError callbacks       *)
(*   components/ChatBubble      the <think> reasoning / body splitter      *)
(*                                                                         *)
(* Text is a sequence of one-character strings.  The wire carries bytes:   *)
(* ASCII bytes stand for themselves, "E1" "E2" are the two bytes of one    *)
(* non-ASCII character (written "e'").  In turn texts the markers          *)
(* "<think>" and "</think>" are single tokens.                             *)
(***************************************************************************)
EXTENDS Integers, Sequences, FiniteSets, TLC

\* ---------------------------------------------------------------- bounds
MaxLines == 2        \* lines of a response payload
MaxFrag == 5         \* bytes of one body fragment returned by reader.read()
MaxTurns == 4        \* turns of the conversation (two exchanges)
MaxClock == 1        \* values of Date.now()
MaxText == 7         \* tokens of a text given to ChatBubble

\* Pieces typed into the host field of the settings dialog.
MaxPieces == 3

\* Characters typed into the textarea of InputArea.
MaxInput == 2

\* ------------------------------------------------------- sequence helpers
RECURSIVE Flatten(_)
Flatten(ss) == IF ss = <<>> THEN <<>> ELSE Head(ss) \o Flatten(Tail(ss))

Front(s) == SubSeq(s, 1, Len(s) - 1)

Last(s) == s[Len(s)]

IsPrefix(p, s) == Len(p) <= Len(s) /\ SubSeq(s, 1, Len(p)) = p

\* ------------------------------------------------------------- the wire
NL == "\n"

SP == " "

\* The lines a server can send: a record with content "a", a record with
\* the two-byte character as content, a record without content (such as the
\* final {"done":true}) followed by a space, and a line that is not JSON.
\* Blank lines come from the split itself: the piece after the last newline
\* of a fragment, and the space when a cut isolates it.
RecA == <<"{", "a", "}">>

RecE == <<"{", "E1", "E2", "}">>

RecDone == <<"{", "}", SP>>

BadLine == <<"x">>

LineKinds == {RecA, RecE, RecDone, BadLine}

\* Newline-delimited payloads of 1..MaxLines lines, every line terminated.
RECURSIVE PayloadsOf(_)
PayloadsOf(n) ==
    IF n = 0 THEN {<<>>}
    ELSE {l \o <<NL>> \o p : l \in LineKinds, p \in PayloadsOf(n - 1)}

Payloads == UNION {PayloadsOf(n) : n \in 1..MaxLines}

\* ------------------------------------------------------- TextDecoder
\* decoder.decode(value, {stream: true}): UTF-8 bytes to characters; an
\* incomplete trailing sequence is held back for the next call, an invalid
\* one becomes the replacement character.
RECURSIVE Utf8(_)
Utf8(bytes) ==
    IF bytes = <<>> THEN <<>>
    ELSE IF Head(bytes) = "E1"
         THEN IF Len(bytes) >= 2 /\ bytes[2] = "E2"
              THEN <<"e'">> \o Utf8(SubSeq(bytes, 3, Len(bytes)))
              ELSE <<"?">> \o Utf8(Tail(bytes))
         ELSE IF Head(bytes) = "E2"
              THEN <<"?">> \o Utf8(Tail(bytes))
              ELSE <<Head(bytes)>> \o Utf8(Tail(bytes))

DecoderHeld(pending, value) ==
    LET all == pending \o value
    IN  IF all # <<>> /\ Last(all) = "E1" THEN <<"E1">> ELSE <<>>

DecoderText(pending, value) ==
    LET all == pending \o value
    IN  IF all # <<>> /\ Last(all) = "E1" THEN Utf8(Front(all)) ELSE Utf8(all)

\* ------------------------------------------------------- String.split
\* text.split('\n'): the pieces between newlines, the empty pieces included.
RECURSIVE SplitNL(_, _)
SplitNL(text, cur) ==
    IF text = <<>> THEN <<cur>>
    ELSE IF Head(text) = NL
         THEN <<cur>> \o SplitNL(Tail(text), <<>>)
         ELSE SplitNL(Tail(text), Append(cur, Head(text)))

Split(text) == SplitNL(text, <<>>)

\* line.trim()
RECURSIVE TrimLeft(_)
TrimLeft(s) ==
    IF s # <<>> /\ Head(s) = SP THEN TrimLeft(Tail(s)) ELSE s

RECURSIVE TrimRight(_)
TrimRight(s) ==
    IF s # <<>> /\ Last(s) = SP THEN TrimRight(Front(s)) ELSE s

Trim(s) == TrimRight(TrimLeft(s))

\* ------------------------------------------------------- JSON.parse
\* A line is a JSON record when, surrounding whitespace aside, it is one
\* balanced object "{" content "}"; anything else makes JSON.parse throw.
ContentChars == {"a", "e'"}

JSONParseOk(line) ==
    LET t == Trim(line)
    IN  /\ Len(t) >= 2
        /\ t[1] = "{"
        /\ t[Len(t)] = "}"
        /\ \A i \in 2..(Len(t) - 1) : t[i] \in ContentChars

\* json.message.content of a parsed line
JSONContent(line) ==
    LET t == Trim(line) IN SubSeq(t, 2, Len(t) - 1)

\* ------------------------------------------------------- ChatBubble
OpenTag == "<think>"

CloseTag == "</think>"

BubbleTokens == {OpenTag, CloseTag, "a", "b", SP}

\* /<think>([\s\S]*?)(?:<\/think>|$)/ : the match starts at the leftmost
\* "<think>"; the lazy group stops at the first "</think>" after it, or at
\* the end of the text when there is none.  start = 0: no match; stop is the
\* position of the last token of the match.
\* a greedy group runs to the end of the text
ThinkMatchAtGreedy(text, from) ==
    LET opens == {i \in from..Len(text) : text[i] = OpenTag}
    IN  IF opens = {} THEN [start |-> 0, stop |-> 0, close |-> FALSE]
        ELSE [start |-> CHOOSE x \in opens : \A y \in opens : x <= y,
              stop |-> Len(text), close |-> FALSE]

ThinkMatchAt(text, from) ==
    LET opens == {i \in from..Len(text) : text[i] = OpenTag}
    IN  IF opens = {} THEN [start |-> 0, stop |-> 0, close |-> FALSE]
        ELSE LET i == CHOOSE x \in opens : \A y \in opens : x <= y
                 closes == {j \in (i + 1)..Len(text) : text[j] = CloseTag}
             IN  IF closes = {}
                 THEN [start |-> i, stop |-> Len(text), close |-> FALSE]
                 ELSE [start |-> i, close |-> TRUE,
                       stop |-> CHOOSE x \in closes : \A y \in closes : x <= y]

ThinkMatch(text) == ThinkMatchAt(text, 1)

\* a group that always leaves out the last token of the match
ThinkGroupShort(text, m) == SubSeq(text, m.start + 1, m.stop - 1)

\* thinkMatch[1], the captured group
ThinkGroup(text, m) ==
    SubSeq(text, m.start + 1, IF m.close THEN m.stop - 1 ELSE m.stop)

\* with the g flag every match is removed
RECURSIVE RemoveThinkAll(_)
RemoveThinkAll(text) ==
    LET m == ThinkMatch(text)
    IN  IF m.start = 0 THEN text
        ELSE SubSeq(text, 1, m.start - 1)
             \o RemoveThinkAll(SubSeq(text, m.stop + 1, Len(text)))

\* mainContent.replace(/<think>[\s\S]*?(?:<\/think>|$)/, ''): without the g
\* flag only the first match is removed.
RemoveThink(text) ==
    LET m == ThinkMatch(text)
    IN  IF m.start = 0 THEN text
        ELSE SubSeq(text, 1, m.start - 1) \o SubSeq(text, m.stop + 1, Len(text))

\* marked.parse and DOMPurify.sanitize, as far as ChatBubble looks at the
\* result: a text of whitespace only renders to the empty string, which is
\* falsy.
Html(text) == IF \A k \in 1..Len(text) : text[k] = SP THEN "" ELSE "html"

\* The useMemo of ChatBubble and what the component shows of it.  thinkHtml
\* is null when thinkContent is empty; the reasoning block is shown when
\* !isUser && thinkHtml, the "..." placeholder when !displayHtml && !thinkHtml.
Render(role, content) ==
    IF role = "system"
    THEN [role |-> role, content |-> content, thinkContent |-> <<>>,
          mainContent |-> content, thinkHtml |-> "null",
          displayHtml |-> "html", showThink |-> FALSE, placeholder |-> FALSE]
    ELSE LET m == ThinkMatch(content)
             thinkContent == IF m.start # 0 THEN ThinkGroup(content, m) ELSE <<>>
             mainContent == IF m.start # 0 THEN RemoveThink(content) ELSE content
             thinkHtml == IF thinkContent # <<>> THEN Html(thinkContent) ELSE "null"
             displayHtml == Html(mainContent)
         IN  [role |-> role, content |-> content,
              thinkContent |-> thinkContent, mainContent |-> mainContent,
              thinkHtml |-> thinkHtml,
              displayHtml |-> displayHtml,
              showThink |-> (role # "user" /\ thinkHtml \notin {"null", ""}),
              placeholder |-> (displayHtml = "" /\ thinkHtml \in {"null", ""})]

\* ------------------------------------------------------------- the state
VARIABLES
    messages,     \* App: the conversation, a sequence of turns
    isLoading,    \* App: an exchange is in flight
    clock,        \* Date.now()
    caller,       \* who called streamChat: "App", "Direct" or "none"
    throws,       \* the callbacks of this call that throw when invoked
    pc,           \* where streamChat stands
    assistantId,  \* handleSendMessage: id of the placeholder turn
    turnPos,      \* position of that placeholder in messages, 0 when gone
    doneTurns,    \* positions of the turns whose exchange ended with onDone
    status,       \* response.status of a failed response
    errorText,    \* errorText, once response.text() has resolved
    payload,      \* all bytes of the body of a successful response
    wire,         \* the bytes of it that reader.read() has not returned yet
    pending,      \* bytes the TextDecoder holds back
    decoded,      \* the records JSON.parse returned, in order
    calls,        \* the callbacks invoked by this call, in order
    warnings,     \* number of console.warn calls of this call
    bubble,       \* ChatBubble: the message shown and its memoized split
    silent,       \* the server has stopped answering the pending request
    settings,     \* App: the settings in force
    localSettings,\* SettingsDialog: the settings being edited
    request,      \* what streamChat put into its fetch: host, model, messages
    inputText,    \* InputArea: text
    selectedImages, \* InputArea: selectedImages
    dialog,       \* SettingsDialog: models, isLoadingModels, connectionStatus,
                  \* errorMsg
    check,        \* SettingsDialog: where handleCheckConnection stands, with
                  \* the arguments and the localSettings of its closure
    requests      \* the URLs that call has fetched, in order

vars == <<messages, isLoading, clock, caller, throws, pc, assistantId,
          turnPos, doneTurns, status, errorText, payload, wire, pending,
          decoded, calls, warnings, bubble, silent, settings, localSettings,
          request, inputText, selectedImages, dialog, check, requests>>

appVars == <<messages, isLoading, clock, assistantId, turnPos>>

respVars == <<status, errorText, payload, wire, pending>>

outVars == <<decoded, calls, warnings>>

streamVars == <<caller, throws, pc, respVars, outVars>>

dialogVars == <<dialog, check, requests>>

inputVars == <<inputText, selectedImages>>

restVars == <<bubble, silent, settings, localSettings, dialogVars>>

Callbacks == {"onChunk", "onDone", "onError"}

InFlight == {"fetch", "text", "read"}

Statuses == {"404", "500"}

BodyTexts == {"model not found"}

\* errorText before response.text() has resolved
NoText == "<unassigned>"

UserTexts == {<<"h", "i">>}

\* ------------------------------------------------------- error messages
FailedToFetch == <<"Failed to fetch">>

NoResponseBody == <<"No response body">>

NetworkError == <<"network error">>

DoneThrew == <<"onDone threw">>

OllamaErrorNoStatus(st, txt) == <<"Ollama Error (", "", "): ", txt>>

\* `Ollama Error (${response.status}): ${errorText}`
OllamaError(st, txt) == <<"Ollama Error (", st, "): ", txt>>

\* `\n\n*[Error: ${error.message}]*`
Annotation(msg) == <<NL, NL, "*[Error: ">> \o msg \o <<"]*">>

\* ------------------------------------------------------- App callbacks
\* onChunk and onError map over the turns and append to those whose id is
\* assistantId.
AppendToFront(msgs, id, txt) ==
    [i \in 1..Len(msgs) |->
        IF msgs[i].id = id
        THEN [msgs[i] EXCEPT !.content = txt \o msgs[i].content]
        ELSE msgs[i]]

AppendTo(msgs, id, txt) ==
    [i \in 1..Len(msgs) |->
        IF msgs[i].id = id
        THEN [msgs[i] EXCEPT !.content = msgs[i].content \o txt]
        ELSE msgs[i]]

Call(cb, arg) == [cb |-> cb, arg |-> arg]

OnErrorAppReplace(msgs, id, msg) ==
    [i \in 1..Len(msgs) |->
        IF msgs[i].id = id
        THEN [msgs[i] EXCEPT !.content = Annotation(msg)]
        ELSE msgs[i]]

\* App's onError appends the annotation of the error to the turn.
OnErrorApp(msgs, id, msg) == AppendTo(msgs, id, Annotation(msg))

\* onChunk as the caller passed it: App's appends the chunk to the turn, a
\* direct caller's is only seen to be invoked.
OnChunk(who, msgs, id, chunk) ==
    IF who = "App" THEN AppendTo(msgs, id, chunk) ELSE msgs

\* ------------------------------------------------------- the line loop
\* for (const line of lines): blank lines are skipped; a line that parses
\* and has content is handed to onChunk; whatever is thrown inside the try,
\* by JSON.parse or by onChunk, is logged with console.warn and the loop
\* goes on.  out = [decoded, calls, warnings, messages].
LineStep(line, who, th, id, out) ==
    IF Trim(line) = <<>> THEN out
    ELSE IF ~JSONParseOk(line)
         THEN [out EXCEPT !.warnings = @ + 1]
         ELSE LET c == JSONContent(line)
                  d == [out EXCEPT !.decoded = Append(@, c)]
              IN  IF c = <<>> THEN d
                  ELSE IF "onChunk" \in th
                       THEN [d EXCEPT !.calls = Append(@, Call("onChunk", c)),
                                      !.warnings = @ + 1]
                       ELSE [d EXCEPT !.calls = Append(@, Call("onChunk", c)),
                                      !.messages = OnChunk(who, @, id, c)]

\* stops at the first line that does not parse
RECURSIVE LineLoopAbort(_, _, _, _, _)
LineLoopAbort(lines, who, th, id, out) ==
    IF lines = <<>> THEN out
    ELSE IF Trim(Head(lines)) # <<>> /\ ~JSONParseOk(Head(lines))
         THEN [out EXCEPT !.warnings = @ + 1]
         ELSE LineLoopAbort(Tail(lines), who, th, id,
                            LineStep(Head(lines), who, th, id, out))

RECURSIVE LineLoop(_, _, _, _, _)
LineLoop(lines, who, th, id, out) ==
    IF lines = <<>> THEN out
    ELSE LineLoop(Tail(lines), who, th, id,
                  LineStep(Head(lines), who, th, id, out))

\* ------------------------------------------------------- settings
Http == <<"h", "t", "t", "p", ":", "/", "/">>
Https == <<"h", "t", "t", "p", "s", ":", "/", "/">>

\* normalizeHost: trim, put "http://" in front when the text does not begin
\* with http:// or https://, and remove one "/" at the end.
NormalizeHost(host) ==
    LET trimmed == Trim(host)
        normalized == IF IsPrefix(Http, trimmed) \/ IsPrefix(Https, trimmed)
                      THEN trimmed
                      ELSE Http \o trimmed
    IN  IF normalized # <<>> /\ Last(normalized) = "/"
        THEN Front(normalized)
        ELSE normalized

\* images: undefined
Undefined == <<"undefined">>

\* 'http://127.0.0.1:11434', the address written as one character, and
\* 'You are a helpful AI assistant.' written as its first word.
DefaultHost == Http \o <<"1">>
DefaultPrompt == <<"Y", "o", "u">>

DEFAULT_SETTINGS ==
    [host |-> DefaultHost, selectedModel |-> "", systemPrompt |-> DefaultPrompt]

\* What localStorage holds after a model was selected and saved.
SavedSettings ==
    [host |-> DefaultHost, selectedModel |-> "m1",
     systemPrompt |-> DefaultPrompt]

\* No handleCheckConnection is pending.
NoCheck == [pc |-> "idle", host |-> <<>>, fetchList |-> FALSE,
            selectedModel |-> "", result |-> "none"]

NoRequest == [host |-> <<>>, model |-> "", messages |-> <<>>]

\* ------------------------------------------------------------------ Init
InitApp ==
    /\ messages = <<>>
    /\ isLoading = FALSE
    /\ clock = 0
    /\ caller = "none"
    /\ throws = {}
    /\ pc = "idle"
    /\ assistantId = 0
    /\ turnPos = 0
    /\ doneTurns = {}
    /\ status = ""
    /\ errorText = NoText
    /\ payload = <<>>
    /\ wire = <<>>
    /\ pending = <<>>
    /\ decoded = <<>>
    /\ calls = <<>>
    /\ warnings = 0
    /\ bubble = Render("assistant", <<>>)
    /\ silent = FALSE
    /\ settings \in {DEFAULT_SETTINGS, SavedSettings}
    /\ request = NoRequest
    /\ inputText = <<>>
    /\ selectedImages = <<>>
    /\ dialog = [models |-> <<>>, isLoadingModels |-> FALSE,
                 connectionStatus |-> "idle", errorMsg |-> ""]
    /\ check = NoCheck
    /\ requests = <<>>

\* SettingsDialog: useState(settings).
Init ==
    /\ InitApp
    /\ localSettings = settings

\* The start of streamChat, up to `await fetch(...)`: the URL and the body of
\* the request are built from the arguments of the call.
StartExchange(who, th, apiMessages) ==
    /\ request' = [host |-> NormalizeHost(settings.host),
                   model |-> settings.selectedModel,
                   messages |-> apiMessages]
    /\ caller' = who
    /\ throws' = th
    /\ pc' = "fetch"
    /\ status' = ""
    /\ errorText' = NoText
    /\ payload' = <<>>
    /\ wire' = <<>>
    /\ pending' = <<>>
    /\ decoded' = <<>>
    /\ calls' = <<>>
    /\ warnings' = 0

\* apiMessages: the turns before the send and the new user turn, each
\* reduced to role, content and images, with the system prompt put in front
\* when it is not empty.
ApiMessagesAll(msgs, userMsg, systemPrompt) ==
    LET turns == msgs \o <<userMsg, [role |-> "assistant", content |-> <<>>,
                                     images |-> Undefined]>>
        api == [i \in 1..Len(turns) |->
                   [role |-> turns[i].role, content |-> turns[i].content,
                    images |-> turns[i].images]]
    IN  IF systemPrompt # <<>>
        THEN <<[role |-> "system", content |-> systemPrompt,
                images |-> Undefined]>> \o api
        ELSE api

ApiMessages(msgs, userMsg, systemPrompt) ==
    LET turns == msgs \o <<userMsg>>
        api == [i \in 1..Len(turns) |->
                   [role |-> turns[i].role, content |-> turns[i].content,
                    images |-> turns[i].images]]
    IN  IF systemPrompt # <<>>
        THEN <<[role |-> "system", content |-> systemPrompt,
                images |-> Undefined]>> \o api
        ELSE api

\* isConfigured = settings.host && settings.selectedModel
isConfigured == settings.host # <<>> /\ settings.selectedModel # ""

\* The guard of InputArea.handleSend: it returns at once when there is
\* nothing to send, when isLoading, or when disabled (= !isConfigured).
SendAllowedWhileLoading(text, images) ==
    /\ Trim(text) # <<>> \/ images # <<>>
    /\ isConfigured

SendAllowed(text, images) ==
    /\ Trim(text) # <<>> \/ images # <<>>
    /\ ~isLoading
    /\ isConfigured

\* InputArea.handleSend passes the guard and calls App.handleSendMessage:
\* the user turn and the empty assistant turn are added, isLoading is set,
\* and streamChat is called with App's callbacks, none of which throws.
\* now is the value of Date.now(), which never decreases.
handleSendMessage(text, images, now) ==
    /\ UNCHANGED restVars
    /\ SendAllowed(text, images)
    /\ inputText' = <<>>
    /\ selectedImages' = <<>>
    /\ Len(messages) + 2 <= MaxTurns
    /\ now >= clock
    /\ clock' = now
    /\ LET userMsg == [role |-> "user", content |-> text, images |-> images,
                       timestamp |-> now, id |-> now]
           assistantMsg == [role |-> "assistant", content |-> <<>>,
                            images |-> Undefined, timestamp |-> now,
                            id |-> now + 1]
       IN  /\ messages' = messages \o <<userMsg, assistantMsg>>
           /\ assistantId' = now + 1
           /\ turnPos' = Len(messages) + 2
           /\ StartExchange("App", {},
                            ApiMessages(messages, userMsg,
                                        settings.systemPrompt))
    /\ isLoading' = TRUE
    /\ UNCHANGED doneTurns

\* streamChat called by another caller, whose callbacks in th throw.
streamChatDirect(th) ==
    /\ UNCHANGED <<restVars, inputVars>>
    /\ ~isLoading
    /\ pc \notin InFlight
    /\ StartExchange("Direct", th, <<>>)
    /\ UNCHANGED <<appVars, doneTurns>>

\* SettingsDialog.handleChange: one field of the dialog is edited.
handleChange(field, value) ==
    /\ localSettings' = [localSettings EXCEPT ![field] = value]
    /\ UNCHANGED <<appVars, doneTurns, streamVars, bubble, silent, settings,
                   request, inputVars, dialogVars>>

\* SettingsDialog.handleSave: the host is cleaned up and App's onSave
\* replaces the settings.
handleSaveLive ==
    /\ settings' = [localSettings EXCEPT
                       !.host = NormalizeHost(localSettings.host)]
    /\ request' = [request EXCEPT !.host = NormalizeHost(settings'.host),
                                  !.model = settings'.selectedModel]
    /\ UNCHANGED <<appVars, doneTurns, streamVars, bubble, silent,
                   localSettings, inputVars, dialogVars>>

handleSave ==
    /\ settings' = [localSettings EXCEPT
                       !.host = NormalizeHost(localSettings.host)]
    /\ UNCHANGED <<appVars, doneTurns, streamVars, bubble, silent,
                   localSettings, request, inputVars, dialogVars>>

\* App.handleClearChat, after window.confirm.
handleClearChat(confirmed) ==
    /\ UNCHANGED <<restVars, inputVars, request>>
    /\ Len(messages) > 0
    /\ messages' = IF confirmed THEN <<>> ELSE messages
    /\ turnPos' = IF confirmed THEN 0 ELSE turnPos
    /\ doneTurns' = IF confirmed THEN {} ELSE doneTurns
    /\ UNCHANGED <<isLoading, clock, caller, throws, pc, assistantId,
                   respVars, outVars>>

\* catch (error) { onError(error) }: the end of streamChat on every failure.
\* App's onError clears isLoading and appends the annotation to the turn; when
\* onError itself throws, the promise of streamChat rejects.
Fail(msg) ==
    /\ calls' = Append(calls, Call("onError", msg))
    /\ pc' = IF "onError" \in throws THEN "rejected" ELSE "returned"
    /\ IF caller = "App"
       THEN /\ isLoading' = FALSE
            /\ messages' = OnErrorApp(messages, assistantId, msg)
       ELSE UNCHANGED <<isLoading, messages>>
    /\ UNCHANGED <<clock, caller, throws, assistantId, turnPos, doneTurns,
                   decoded, warnings>>

\* fetch rejects: the server is unreachable.
FetchRejects ==
    /\ UNCHANGED <<restVars, inputVars, request>>
    /\ pc = "fetch"
    /\ Fail(FailedToFetch)
    /\ UNCHANGED respVars

\* fetch resolves with a non-success status: streamChat awaits response.text()
FetchNotOk(st) ==
    /\ UNCHANGED <<restVars, inputVars, request>>
    /\ pc = "fetch"
    /\ pc' = "text"
    /\ status' = st
    /\ UNCHANGED <<appVars, doneTurns, caller, throws, errorText, payload,
                   wire, pending, outVars>>

\* response.text() resolves: throw new Error(`Ollama Error (...)`).
TextResolves(txt) ==
    /\ UNCHANGED <<restVars, inputVars, request>>
    /\ pc = "text"
    /\ errorText' = txt
    /\ Fail(OllamaError(status, txt))
    /\ UNCHANGED <<status, payload, wire, pending>>

\* response.text() rejects: the connection broke while the body was read.
TextRejects ==
    /\ UNCHANGED <<restVars, inputVars, request>>
    /\ pc = "text"
    /\ Fail(NetworkError)
    /\ UNCHANGED respVars

\* fetch resolves with a success status and no body.
FetchNoBody ==
    /\ UNCHANGED <<restVars, inputVars, request>>
    /\ pc = "fetch"
    /\ Fail(NoResponseBody)
    /\ UNCHANGED respVars

\* fetch resolves with a success status and a body: getReader(), first read.
FetchOk(p) ==
    /\ UNCHANGED <<restVars, inputVars, request>>
    /\ pc = "fetch"
    /\ pc' = "read"
    /\ payload' = p
    /\ wire' = p
    /\ UNCHANGED <<appVars, doneTurns, caller, throws, status, errorText,
                   pending, outVars>>

\* reader.read() resolves with the next n bytes of the body: decode, split,
\* run the line loop, read again.
ReadValue(n) ==
    /\ UNCHANGED <<restVars, inputVars, request>>
    /\ pc = "read"
    /\ n <= Len(wire)
    /\ LET value == SubSeq(wire, 1, n)
           text == DecoderText(pending, value)
           out == LineLoop(Split(text), caller, throws, assistantId,
                           [decoded |-> decoded, calls |-> calls,
                            warnings |-> warnings, messages |-> messages])
       IN  /\ wire' = SubSeq(wire, n + 1, Len(wire))
           /\ pending' = DecoderHeld(pending, value)
           /\ decoded' = out.decoded
           /\ calls' = out.calls
           /\ warnings' = out.warnings
           /\ messages' = out.messages
    /\ UNCHANGED <<isLoading, clock, caller, throws, pc, assistantId, turnPos,
                   doneTurns, status, errorText, payload>>

\* reader.read() resolves with done: onDone(), break.  App's onDone clears
\* isLoading.  onDone is called inside the try, so when it throws the catch
\* calls onError.
ReadDone ==
    /\ UNCHANGED <<restVars, inputVars, request>>
    /\ pc = "read"
    /\ wire = <<>>
    /\ IF "onDone" \in throws
       THEN /\ calls' = calls \o <<Call("onDone", <<>>),
                                   Call("onError", DoneThrew)>>
            /\ pc' = IF "onError" \in throws THEN "rejected" ELSE "returned"
            /\ UNCHANGED <<isLoading, messages, doneTurns>>
       ELSE /\ calls' = Append(calls, Call("onDone", <<>>))
            /\ pc' = "returned"
            /\ isLoading' = IF caller = "App" THEN FALSE ELSE isLoading
            /\ doneTurns' = IF caller = "App" /\ turnPos # 0
                            THEN doneTurns \cup {turnPos} ELSE doneTurns
            /\ UNCHANGED messages
    /\ UNCHANGED <<clock, caller, throws, assistantId, turnPos, respVars,
                   decoded, warnings>>

\* reader.read() rejects: the connection broke in mid-stream.
ReadRejects ==
    /\ UNCHANGED <<restVars, inputVars, request>>
    /\ pc = "read"
    /\ Fail(NetworkError)
    /\ UNCHANGED respVars

StreamSteps ==
    \/ FetchRejects
    \/ \E st \in Statuses : FetchNotOk(st)
    \/ \E txt \in BodyTexts : TextResolves(txt)
    \/ TextRejects
    \/ FetchNoBody
    \/ \E p \in Payloads : FetchOk(p)
    \/ \E n \in 1..MaxFrag : ReadValue(n)
    \/ ReadDone
    \/ ReadRejects

\* What the event loop runs when the server answers the pending await.
StreamNext == ~silent /\ StreamSteps

\* The application: exchanges are started by handleSendMessage.
Next ==
    \/ \E text \in UserTexts, now \in 0..MaxClock :
          handleSendMessage(text, <<>>, now)
    \/ \E confirmed \in BOOLEAN : handleClearChat(confirmed)
    \/ StreamNext

Spec == Init /\ [][Next]_vars

\* streamChat on its own, called with callbacks of any behaviour.
NextDirect ==
    \/ \E th \in SUBSET Callbacks : streamChatDirect(th)
    \/ StreamNext

SpecDirect == Init /\ [][NextDirect]_vars

\* The server stops answering: the pending fetch or read never settles.
Stall ==
    /\ pc \in InFlight
    /\ ~silent
    /\ silent' = TRUE
    /\ UNCHANGED <<appVars, doneTurns, streamVars, bubble, settings,
                   localSettings, request, inputVars, dialogVars>>

\* streamChat with a server that may fall silent.  The event loop runs the
\* continuation of every promise that settles, so the steps of the stream
\* are taken whenever the server keeps answering.
NextLive ==
    \/ NextDirect
    \/ Stall

SpecLive == Init /\ [][NextLive]_vars /\ WF_vars(StreamNext)

\* A conversation of several sends with images, while the settings are
\* edited and saved; the server answers with one record or not at all.
ConvTexts == {<<>>, <<"h", "i">>}
ConvImages == {<<>>, <<"i">>}
ConvPayloads == {RecA \o <<NL>>}
ConvHosts == {DefaultHost, <<"x", "/">>}
ConvModels == {"m1", "m2"}
ConvPrompts == {<<>>, DefaultPrompt}

NextConv ==
    \/ \E text \in ConvTexts, images \in ConvImages, now \in 0..MaxClock :
          handleSendMessage(text, images, now)
    \/ handleClearChat(TRUE)
    \/ \E h \in ConvHosts : handleChange("host", h)
    \/ \E m \in ConvModels : handleChange("selectedModel", m)
    \/ \E sp \in ConvPrompts : handleChange("systemPrompt", sp)
    \/ handleSave
    \/ FetchRejects
    \/ \E p \in ConvPayloads : FetchOk(p)
    \/ ReadValue(Len(RecA) + 1)
    \/ ReadDone

SpecConv == Init /\ [][NextConv]_vars

\* InputArea.handleTextChange: setText(e.target.value); the textarea is
\* disabled while the client is not configured.
handleTextChange(value) ==
    /\ isConfigured
    /\ Len(value) <= MaxInput
    /\ inputText' = value
    /\ UNCHANGED <<appVars, doneTurns, streamVars, restVars, request,
                   selectedImages>>

\* InputArea.handleImageUpload: the files picked are converted and added to
\* selectedImages, which may happen after an exchange has started.
handleImageUpload(newImages) ==
    /\ isConfigured
    /\ selectedImages = <<>>
    /\ selectedImages' = selectedImages \o newImages
    /\ UNCHANGED <<appVars, doneTurns, streamVars, restVars, request,
                   inputText>>

\* InputArea.removeImage
removeImage(index) ==
    /\ index \in 1..Len(selectedImages)
    /\ selectedImages' = SubSeq(selectedImages, 1, index - 1)
                            \o SubSeq(selectedImages, index + 1,
                                      Len(selectedImages))
    /\ UNCHANGED <<appVars, doneTurns, streamVars, restVars, request,
                   inputText>>

\* InputArea.handleSend with what the user has typed and selected.
handleSend(now) == handleSendMessage(inputText, selectedImages, now)

\* The user types, picks images and sends, while the server answers with
\* one record or not at all.
InputChars == {"h", SP}

NextInput ==
    \/ \E c \in InputChars : handleTextChange(Append(inputText, c))
    \/ inputText # <<>> /\ handleTextChange(Front(inputText))
    \/ handleImageUpload(<<"i">>)
    \/ removeImage(1)
    \/ \E now \in 0..MaxClock : handleSend(now)
    \/ handleClearChat(TRUE)
    \/ FetchRejects
    \/ \E p \in ConvPayloads : FetchOk(p)
    \/ ReadValue(Len(RecA) + 1)
    \/ ReadDone

SpecInput == Init /\ [][NextInput]_vars

\* ------------------------------------------------------- connection check
\* s.includes(sub)
Includes(s, sub) ==
    \E i \in 0..(Len(s) - Len(sub)) : SubSeq(s, i + 1, i + Len(sub)) = sub

\* The members of an array.
Range(s) == {s[i] : i \in 1..Len(s)}

ApiTags == <<"/", "api", "/", "tags">>

ErrorResponseMsg == "Connected to server, but it returned an error."
MixedContentMsg == "Mixed Content Error"
NetworkErrorMsg == "Network Error: Could not reach Ollama."
InvalidUrlMsg == "Failed to parse URL"

\* handleCheckConnection up to its first await.  checkConnection
\* normalizes the host and resolves to false without a fetch when the
\* result is 'http://' or 'https://'; otherwise it fetches the host.  The
\* closure holds the localSettings of the render that made it.
handleCheckConnection(host, fetchList) ==
    /\ check.pc = "idle"
    /\ dialog' = [dialog EXCEPT !.connectionStatus = "idle", !.errorMsg = "",
                                !.isLoadingModels = TRUE]
    /\ LET cleanHost == NormalizeHost(host)
           skipped == cleanHost = Http \/ cleanHost = Https
       IN  /\ check' = [pc |-> IF skipped THEN "checkFalse" ELSE "checkFetch",
                        host |-> host, fetchList |-> fetchList,
                        selectedModel |-> localSettings.selectedModel,
                        result |-> "none"]
           /\ requests' = IF skipped THEN <<>> ELSE <<cleanHost>>
    /\ UNCHANGED <<appVars, doneTurns, streamVars, bubble, silent, settings,
                   request, inputVars>>

\* The refresh button, disabled while isLoadingModels.
refreshModels ==
    /\ ~dialog.isLoadingModels
    /\ handleCheckConnection(localSettings.host, TRUE)
    /\ UNCHANGED localSettings

\* useEffect on isOpen: the dialog is opened.
openDialog ==
    /\ localSettings' = settings
    /\ handleCheckConnection(settings.host, FALSE)

\* finally { setIsLoadingModels(false) }
Finished(d, connectionStatus, msg) ==
    [d EXCEPT !.connectionStatus = connectionStatus, !.errorMsg = msg,
              !.isLoadingModels = FALSE]

\* checkConnection resolved to false: the else branch.
ConnectionRefused(result) ==
    /\ dialog' = Finished(dialog, "error", ErrorResponseMsg)
    /\ check' = [check EXCEPT !.pc = "idle", !.result = result]
    /\ UNCHANGED <<localSettings, requests>>

checkReturnsFalse ==
    /\ check.pc = "checkFalse"
    /\ ConnectionRefused("false")
    /\ UNCHANGED <<appVars, doneTurns, streamVars, bubble, silent, settings,
                   request, inputVars>>

\* The fetch of checkConnection resolves with response.ok = ok.  When it
\* is ok and the list is wanted, fetchModels fetches /api/tags.
checkFetchResolves(ok) ==
    /\ check.pc = "checkFetch"
    /\ IF ~ok
       THEN ConnectionRefused("notOk")
       ELSE IF check.fetchList
            THEN /\ dialog' = [dialog EXCEPT !.connectionStatus = "success"]
                 /\ check' = [check EXCEPT !.pc = "modelsFetch"]
                 /\ requests' = Append(requests,
                                       NormalizeHost(check.host) \o ApiTags)
                 /\ UNCHANGED localSettings
            ELSE /\ dialog' = Finished(dialog, "success", "")
                 /\ check' = [check EXCEPT !.pc = "idle",
                                           !.result = "connected"]
                 /\ UNCHANGED <<localSettings, requests>>
    /\ UNCHANGED <<appVars, doneTurns, streamVars, bubble, silent, settings,
                   request, inputVars>>

\* The fetch of checkConnection rejects with an error of message msg, on a
\* page served over https or not.
checkFetchRejects(msg, pageHttps) ==
    /\ check.pc = "checkFetch"
    /\ LET isMixedContent == pageHttps
                                /\ Includes(check.host, SubSeq(Http, 1, 5))
           isFetchError == msg = "Failed to fetch"
           errorMsg == IF isMixedContent THEN MixedContentMsg
                       ELSE IF isFetchError THEN NetworkErrorMsg
                       ELSE msg
       IN  dialog' = Finished(dialog, "error", errorMsg)
    /\ check' = [check EXCEPT !.pc = "idle", !.result = "error"]
    /\ UNCHANGED <<localSettings, requests>>
    /\ UNCHANGED <<appVars, doneTurns, streamVars, bubble, silent, settings,
                   request, inputVars>>

\* fetchModels resolves with the names of the models: setModels, and the
\* first model is selected when the selection of the closure is not in the
\* list.
fetchModelsResolves(fetchedModels) ==
    /\ check.pc = "modelsFetch"
    /\ dialog' = [dialog EXCEPT !.models = fetchedModels,
                                !.isLoadingModels = FALSE]
    /\ localSettings' =
          IF check.selectedModel \notin Range(fetchedModels)
                /\ Len(fetchedModels) > 0
          THEN [localSettings EXCEPT !.selectedModel = fetchedModels[1]]
          ELSE localSettings
    /\ check' = [check EXCEPT !.pc = "idle", !.result = "refreshed"]
    /\ UNCHANGED requests
    /\ UNCHANGED <<appVars, doneTurns, streamVars, bubble, silent, settings,
                   request, inputVars>>

\* fetchModels throws: the inner catch swallows it.
fetchModelsRejects ==
    /\ check.pc = "modelsFetch"
    /\ dialog' = [dialog EXCEPT !.isLoadingModels = FALSE]
    /\ check' = [check EXCEPT !.pc = "idle", !.result = "modelsFailed"]
    /\ UNCHANGED <<localSettings, requests>>
    /\ UNCHANGED <<appVars, doneTurns, streamVars, bubble, silent, settings,
                   request, inputVars>>

\* The settings dialog: the host is edited, a model is picked from the
\* list, the connection is checked and the list refreshed.
DialogHosts == {<<>>, Http, Https, Http \o <<"/">>, <<"x">>, DefaultHost}
ModelLists == {<<>>, <<"m1">>, <<"m1", "m2">>}
FetchErrors == {"Failed to fetch", InvalidUrlMsg}

NextDialog ==
    \/ openDialog
    \/ refreshModels
    \/ \E h \in DialogHosts : handleChange("host", h)
    \/ \E m \in Range(dialog.models) : handleChange("selectedModel", m)
    \/ checkReturnsFalse
    \/ \E ok \in BOOLEAN : checkFetchResolves(ok)
    \/ \E msg \in FetchErrors, pageHttps \in BOOLEAN :
          checkFetchRejects(msg, pageHttps)
    \/ \E fetchedModels \in ModelLists : fetchModelsResolves(fetchedModels)
    \/ fetchModelsRejects

SpecDialog == Init /\ [][NextDialog]_vars

\* The settings dialog with any text typed into the host field.
HostPieces == {Http, Https, <<"x">>, <<"/">>, <<SP>>}

RECURSIVE HostsOf(_)
HostsOf(n) ==
    IF n = 0 THEN {<<>>}
    ELSE LET shorter == HostsOf(n - 1)
         IN  shorter \cup {h \o piece : h \in shorter, piece \in HostPieces}

HostInputs == HostsOf(MaxPieces)

InitHost ==
    /\ InitApp
    /\ \E h \in HostInputs : localSettings = [settings EXCEPT !.host = h]

NextHost == handleSave

SpecHost == InitHost /\ [][NextHost]_vars

\* ChatBubble on its own: the message it shows is a turn whose text grows by
\* one token per delta, and every change of message.content recomputes the
\* memo.
BubbleDelta(tok) ==
    /\ Len(bubble.content) < MaxText
    /\ bubble' = Render(bubble.role, Append(bubble.content, tok))
    /\ UNCHANGED <<appVars, doneTurns, streamVars, silent, settings,
                   localSettings, request, inputVars, dialogVars>>

NextBubble == \E tok \in BubbleTokens : BubbleDelta(tok)

SpecBubble == Init /\ [][NextBubble]_vars

\* ============================================================ properties

\* The callbacks of the current call, by name.
CallsOf(cb) == SelectSeq(calls, LAMBDA c : c.cb = cb)

NumCalls(cb) == Len(CallsOf(cb))

RECURSIVE Args(_)
Args(cs) == IF cs = <<>> THEN <<>> ELSE <<Head(cs).arg>> \o Args(Tail(cs))

\* The deltas handed to onChunk so far, in order.
Deltas == Args(CallsOf("onChunk"))

NonEmpty(ss) == SelectSeq(ss, LAMBDA x : x # <<>>)

Ended == pc \in {"returned", "rejected"}

EndedWith(cb) == Ended /\ calls # <<>> /\ Last(calls).cb = cb

\* The turn of the exchange in flight is still in the conversation.
TurnThere == caller = "App" /\ turnPos # 0

TurnText == messages[turnPos].content

\* The records the loop decodes when the whole payload is one fragment.
OneFragment(p) ==
    LineLoop(Split(DecoderText(<<>>, p)), "Direct", {}, 0,
             [decoded |-> <<>>, calls |-> <<>>, warnings |-> 0,
              messages |-> <<>>]).decoded

\* C1: when the stream has ended, the records decoded from the fragments are
\* the records decoded from the same payload delivered as one fragment.
C1_NoLossAcrossChunks ==
    EndedWith("onDone") => decoded = OneFragment(payload)

\* C2: at every point of an exchange that has not failed, the text of its
\* turn is the concatenation, in stream order, of the contents of the records
\* decoded so far, and the deltas handed to onChunk are those contents.
C2_OrderPreserved ==
    (TurnThere /\ NumCalls("onError") = 0) =>
        /\ TurnText = Flatten(decoded)
        /\ Deltas = NonEmpty(decoded)

C2_Witness ==
    /\ TurnThere
    /\ pc = "read"
    /\ wire # <<>>
    /\ decoded = <<<<"a">>, <<"e'">>>>
    /\ TurnText = <<"a", "e'">>

\* C3: a call of streamChat invokes onDone and onError at most once in
\* total, and exactly once by the time it has ended.
C3_ExactlyOneOutcome ==
    /\ NumCalls("onDone") + NumCalls("onError") <= 1
    /\ Ended => NumCalls("onDone") + NumCalls("onError") = 1

\* C4 as stated: after a response with a non-success status, the calls are
\* one onError whose cause carries the status and the body text.
C4_StatusErrorAlways ==
    (status # "" /\ Ended) =>
        \E txt \in BodyTexts :
            calls = <<Call("onError", <<"Ollama Error (", status, "): ", txt>>)>>

\* C4 amended: after a response with a non-success status the body is never
\* read as records and onChunk and onDone are never called; onError is called
\* once, with the status and the body text when response.text() resolved and
\* with the read failure when it rejected.
C4_StatusError ==
    status # "" =>
        /\ payload = <<>> /\ wire = <<>> /\ decoded = <<>>
        /\ NumCalls("onChunk") = 0 /\ NumCalls("onDone") = 0
        /\ pc = "text" => calls = <<>>
        /\ pc # "text" =>
              /\ Ended
              /\ calls = <<Call("onError",
                               IF errorText # NoText
                               THEN <<"Ollama Error (", status, "): ",
                                      errorText>>
                               ELSE <<"network error">>)>>

C4_Witness ==
    /\ status = "500"
    /\ errorText = "model not found"
    /\ calls = <<Call("onError",
                      <<"Ollama Error (", "500", "): ", "model not found">>)>>
    /\ TurnThere
    /\ TurnText = <<NL, NL, "*[Error: ", "Ollama Error (", "500", "): ",
                    "model not found", "]*">>

\* C5: when an exchange has failed, the text of its turn is the deltas
\* applied before the failure followed by one annotation of the error.
C5_PartialKept ==
    (TurnThere /\ EndedWith("onError")) =>
        /\ TurnText = Flatten(Deltas) \o Annotation(Last(calls).arg)
        /\ IsPrefix(Flatten(NonEmpty(decoded)), TurnText)

C5_Witness ==
    /\ TurnThere
    /\ EndedWith("onError")
    /\ Deltas = <<<<"a">>>>
    /\ TurnText = <<"a", NL, NL, "*[Error: ", "network error", "]*">>

\* The contents of the lines of a fragment text that are JSON records.
RECURSIVE ValidContents(_)
ValidContents(lines) ==
    IF lines = <<>> THEN <<>>
    ELSE (IF JSONParseOk(Head(lines)) THEN <<JSONContent(Head(lines))>> ELSE <<>>)
         \o ValidContents(Tail(lines))

\* C6: a read of a fragment decodes every valid line of the fragment, also
\* those after a malformed line, delivers their deltas in order and leaves
\* the exchange reading; the read loop ends only with Done at end-of-stream
\* or with the Error of a failed read, never because of a malformed line.
C6_MalformedSkipped ==
    [][(pc = "read" /\ caller = "App") =>
        LET value == SubSeq(wire, 1, Len(wire) - Len(wire'))
            recs == ValidContents(Split(DecoderText(pending, value)))
        IN  \/ /\ wire' # wire
               /\ pc' = "read"
               /\ decoded' = decoded \o recs
               /\ calls' = calls \o [i \in 1..Len(NonEmpty(recs)) |->
                                        Call("onChunk", NonEmpty(recs)[i])]
               /\ (turnPos # 0 =>
                      messages'[turnPos].content = TurnText \o Flatten(recs))
            \/ /\ wire' = wire
               /\ wire = <<>>
               /\ pc' = "returned"
               /\ calls' = Append(calls, Call("onDone", <<>>))
            \/ /\ wire' = wire
               /\ pc' = "returned"
               /\ calls' = Append(calls, Call("onError", <<"network error">>))
            \/ UNCHANGED <<pc, calls, decoded, wire>>
      ]_vars

C6_Witness ==
    /\ TurnThere
    /\ payload = <<"x", NL, "{", "a", "}", NL>>
    /\ warnings = 1
    /\ decoded = <<<<"a">>>>
    /\ TurnText = <<"a">>
    /\ EndedWith("onDone")

\* A callback invocation that tells the caller of a line that did not parse:
\* anything that is not a delta, not Done, and not the Error of a failed
\* request, response or read.
IsDecodeError(c) ==
    /\ c.cb \notin {"onChunk", "onDone"}
    /\ c.arg \notin {<<"Failed to fetch">>, <<"No response body">>,
                     <<"network error">>, <<"onDone threw">>}
    /\ ~(Len(c.arg) = 4 /\ c.arg[1] = "Ollama Error (")

\* C7: every malformed line read so far has produced exactly one decode-error
\* signal to the caller (with App's callbacks every console.warn is a
\* malformed line).
C7_MalformedObservable ==
    caller = "App" => Len(SelectSeq(calls, IsDecodeError)) = warnings

\* C8: the text of a turn whose exchange ended with Done never changes while
\* the turn is in the conversation: no step applies a delta to it.
C8_TextFrozenAfterDone ==
    [][\A i \in doneTurns :
          i <= Len(messages') =>
              messages'[i].content = messages[i].content]_vars

\* ------------------------------------------------------- ChatBubble claims
NoTag(s, tag) == \A k \in 1..Len(s) : s[k] # tag

HasRegion(s) ==
    \E i, j \in 1..Len(s) : i < j /\ s[i] = OpenTag /\ s[j] = CloseTag

\* C9: without an open marker the reasoning is absent and the body is the
\* whole text; otherwise the reasoning is the text between the first open
\* marker and the first close marker after it (or the end of the text) and
\* the body is the text without that region.
C9_Split ==
    LET T == bubble.content
    IN  /\ NoTag(T, OpenTag) =>
              bubble.thinkHtml = "null" /\ bubble.mainContent = T
        /\ \A i \in 1..Len(T) :
              (T[i] = OpenTag /\ NoTag(SubSeq(T, 1, i - 1), OpenTag)) =>
                  /\ NoTag(SubSeq(T, i + 1, Len(T)), CloseTag) =>
                        /\ bubble.thinkContent = SubSeq(T, i + 1, Len(T))
                        /\ bubble.mainContent = SubSeq(T, 1, i - 1)
                  /\ \A j \in (i + 1)..Len(T) :
                        (/\ T[j] = CloseTag
                         /\ NoTag(SubSeq(T, i + 1, j - 1), CloseTag)) =>
                            /\ bubble.thinkContent = SubSeq(T, i + 1, j - 1)
                            /\ bubble.mainContent =
                                  SubSeq(T, 1, i - 1) \o SubSeq(T, j + 1, Len(T))
        /\ T = <<OpenTag, "a", "b">> =>
              bubble.thinkContent = <<"a", "b">> /\ bubble.mainContent = <<>>
        /\ T = <<OpenTag, "a", "b", CloseTag, "b", "a">> =>
              /\ bubble.thinkContent = <<"a", "b">>
              /\ bubble.mainContent = <<"b", "a">>

C9_Witness ==
    /\ bubble.content = <<"a", OpenTag, "b", CloseTag, "a", "b">>
    /\ bubble.thinkContent = <<"b">>
    /\ bubble.mainContent = <<"a", "a", "b">>
    /\ bubble.thinkHtml = "html"

\* C10: when a second <think>...</think> region follows the first, the
\* reasoning is the content of the first region only and everything after the
\* first close marker, the later regions with their markers, ends the body.
C10_FirstRegionOnly ==
    LET T == bubble.content
    IN  \A i, j \in 1..Len(T) :
           (/\ i < j
            /\ T[i] = OpenTag /\ NoTag(SubSeq(T, 1, i - 1), OpenTag)
            /\ T[j] = CloseTag /\ NoTag(SubSeq(T, i + 1, j - 1), CloseTag)
            /\ HasRegion(SubSeq(T, j + 1, Len(T)))) =>
               LET later == SubSeq(T, j + 1, Len(T))
                   body == bubble.mainContent
               IN  /\ bubble.thinkContent = SubSeq(T, i + 1, j - 1)
                   /\ Len(body) = i - 1 + Len(later)
                   /\ SubSeq(body, i, Len(body)) = later

C10_Witness ==
    /\ bubble.content = <<OpenTag, "a", CloseTag, "b", OpenTag, "a", CloseTag>>
    /\ bubble.thinkContent = <<"a">>
    /\ bubble.mainContent = <<"b", OpenTag, "a", CloseTag>>

\* The first open marker of T is at position i and no close marker follows.
Unterminated(T, i) ==
    /\ i \in 1..Len(T)
    /\ T[i] = OpenTag
    /\ NoTag(SubSeq(T, 1, i - 1), OpenTag)
    /\ NoTag(SubSeq(T, i + 1, Len(T)), CloseTag)

\* C11 as stated: a text whose open marker has no close marker after it has
\* a present reasoning segment and an empty body.
C11_UnterminatedAlways ==
    (\E i \in 1..Len(bubble.content) : Unterminated(bubble.content, i)) =>
        bubble.thinkHtml = "html" /\ bubble.mainContent = <<>>

\* C11 amended: for a text whose first open marker has no close marker after
\* it, the reasoning is the text after the marker, present exactly when that
\* text is not blank, and the body is the text before the marker, empty
\* exactly when the text begins with the marker.
C11_Unterminated ==
    LET T == bubble.content
    IN  \A i \in 1..Len(T) :
           Unterminated(T, i) =>
               /\ bubble.thinkContent = SubSeq(T, i + 1, Len(T))
               /\ (bubble.thinkHtml = "html") <=>
                     (\E k \in (i + 1)..Len(T) : T[k] # SP)
               /\ bubble.mainContent = SubSeq(T, 1, i - 1)
               /\ (bubble.mainContent = <<>>) <=> (i = 1)

C11_Witness ==
    /\ bubble.content = <<OpenTag, "a", "b">>
    /\ bubble.thinkContent = <<"a", "b">>
    /\ bubble.thinkHtml = "html"
    /\ bubble.mainContent = <<>>

\* C12: a growing assistant turn whose body is empty shows the placeholder,
\* with reasoning in progress as well as without reasoning.
C12_PlaceholderShown ==
    (bubble.role = "assistant" /\ bubble.mainContent = <<>>) =>
        bubble.placeholder

\* The conversation was cleared while the exchange of App is in flight.
Abandoned == caller = "App" /\ pc \in InFlight /\ turnPos = 0

\* C13: once the conversation is cleared during an exchange, no callback of
\* that exchange is invoked any more.
C13_NoCallbackAfterClear ==
    [][Abandoned => calls' = calls]_vars

\* C14: every exchange in flight eventually ends.
C14_EveryExchangeEnds ==
    (pc \in InFlight) ~> Ended

\* handleSendMessage is called: streamChat of App starts.
SendStep == pc \notin InFlight /\ pc' = "fetch" /\ caller' = "App"

\* C15: the request of an exchange is built from the settings in force at
\* the send, it is the same in every later state of the exchange, and a
\* step that changes the settings leaves the exchange and the conversation
\* as they are.
C15_Snapshot ==
    [][/\ SendStep =>
            /\ request'.host = NormalizeHost(settings.host)
            /\ request'.model = settings.selectedModel
            /\ IF settings.systemPrompt # <<>>
               THEN request'.messages[1] =
                        [role |-> "system", content |-> settings.systemPrompt,
                         images |-> Undefined]
               ELSE request'.messages[1].role # "system"
       /\ pc \in InFlight => request' = request
       /\ settings' # settings =>
              UNCHANGED <<streamVars, messages, isLoading, assistantId>>
      ]_vars

C15_Witness ==
    /\ caller = "App"
    /\ pc = "read"
    /\ Len(calls) > 0
    /\ request.model # settings.selectedModel
    /\ request.host # NormalizeHost(settings.host)
    /\ request.messages[1].content # settings.systemPrompt

\* C16: the ids of the turns of the conversation are pairwise distinct.
C16_IdsDistinct ==
    \A i, j \in 1..Len(messages) :
        i # j => messages[i].id # messages[j].id

\* C17: a step of an exchange changes the text of no turn but the one that
\* was created for that exchange.
C17_OneWriterPerTurn ==
    [][\A i \in 1..Len(messages) :
          (Len(messages') = Len(messages)
              /\ messages'[i].content # messages[i].content) => i = turnPos
      ]_vars

\* The host has a scheme in front and no "/" at the end.
HasScheme(h) == IsPrefix(Http, h) \/ IsPrefix(Https, h)
NoTrailingSlash(h) == h = <<>> \/ Last(h) # "/"

\* C18: what normalizeHost returns starts with http:// or https:// and does
\* not end with "/".
C18_SchemeNoSlash ==
    HasScheme(settings.host) /\ NoTrailingSlash(settings.host)

\* A callback of the exchange in flight is invoked in this step.
CallbackStep == pc \in InFlight /\ calls' # calls

\* C19: a callback changes nothing but the content of the turn of its
\* exchange, and turns go away only when the conversation is cleared.
C19_AccumulatorFrame ==
    [][/\ CallbackStep =>
            /\ Len(messages') = Len(messages)
            /\ \A i \in 1..Len(messages) :
                  /\ [messages'[i] EXCEPT !.content = messages[i].content]
                        = messages[i]
                  /\ i # turnPos => messages'[i] = messages[i]
       /\ Len(messages') < Len(messages) =>
            messages' = <<>> /\ ~CallbackStep
      ]_vars

\* C20: the messages of the request are the system prompt when it is not
\* empty, the turns before the send in their order, and the new user turn
\* last; the empty assistant turn of the send is not among them.
C20_History ==
    [][SendStep =>
          LET n == Len(messages)
              sys == IF settings.systemPrompt # <<>> THEN 1 ELSE 0
              R == request'.messages
          IN  /\ Len(R) = sys + n + 1
              /\ sys = 1 =>
                    R[1] = [role |-> "system",
                            content |-> settings.systemPrompt,
                            images |-> Undefined]
              /\ \A i \in 1..n :
                    R[sys + i] = [role |-> messages[i].role,
                                  content |-> messages[i].content,
                                  images |-> messages[i].images]
              /\ messages'[n + 1].role = "user"
              /\ R[sys + n + 1] = [role |-> "user",
                                   content |-> messages'[n + 1].content,
                                   images |-> messages'[n + 1].images]
              /\ \A i \in 1..Len(R) :
                    R[i].role = "system" <=> (i = 1 /\ sys = 1)
      ]_vars

C20_Witness ==
    /\ caller = "App"
    /\ pc = "fetch"
    /\ settings.systemPrompt = <<>>
    /\ Len(request.messages) = 3
    /\ request.messages[1].role = "user"
    /\ request.messages[2].role = "assistant"
    /\ request.messages[3].images = <<"i">>

\* These turns were added by a send in this step.
TurnsAdded == Len(messages') > Len(messages)

\* C21: an exchange starts only when the text is not blank or an image is
\* selected, no exchange is loading and host and model are set; when one of
\* these fails no step resets the text and the images; isLoading is true
\* exactly while the exchange of App is in flight.
C21_SendGuard ==
    [][/\ TurnsAdded =>
            /\ ~isLoading
            /\ pc \notin InFlight
            /\ settings.host # <<>>
            /\ settings.selectedModel # ""
            /\ \/ \E k \in 1..Len(inputText) : inputText[k] # SP
               \/ selectedImages # <<>>
       /\ ~TurnsAdded =>
            ~(inputText' # inputText /\ selectedImages' # selectedImages)
       /\ isLoading <=> (caller = "App" /\ pc \in InFlight)
       /\ isLoading' <=> (caller' = "App" /\ pc' \in InFlight)
      ]_vars

C21_Witness ==
    /\ isLoading
    /\ pc = "read"
    /\ Len(messages) = 2
    /\ inputText = <<"h">>
    /\ selectedImages = <<"i">>

\* The host names no address: it is blank, or a scheme, or slashes.
RECURSIVE OnlySlashes(_)
OnlySlashes(h) ==
    h = <<>> \/ (h[1] = "/" /\ OnlySlashes(Tail(h)))

NoAddress(host) ==
    LET trimmed == Trim(host)
    IN  \/ OnlySlashes(trimmed)
        \/ IsPrefix(Http, trimmed)
              /\ OnlySlashes(SubSeq(trimmed, Len(Http) + 1, Len(trimmed)))
        \/ IsPrefix(Https, trimmed)
              /\ OnlySlashes(SubSeq(trimmed, Len(Https) + 1, Len(trimmed)))

\* handleCheckConnection is called in this step.
CheckStarts == check.pc = "idle" /\ check'.pc # "idle"

\* C22: called with a host that names no address, checkConnection fetches
\* nothing and resolves to false.
C22_NoRequestWithoutAddress ==
    [][(CheckStarts /\ NoAddress(check'.host)) =>
          (requests' = <<>> /\ check'.pc = "checkFalse")]_vars

\* C23: when a refresh ends with a list that is not empty, the selected
\* model of the dialog is in that list.
C23_SelectionInList ==
    [][(check.pc = "modelsFetch" /\ check'.result = "refreshed"
           /\ dialog'.models # <<>>) =>
          localSettings'.selectedModel \in Range(dialog'.models)]_vars

====
